---- MODULE Spec2Model ----
(***************************************************************************)
(* Offline-first task synchronisation: the task table and the sync_queue   *)
(* table (Database), the TaskService mutations, the task routes, and the   *)
(* sync cycle of SyncService.sync, one step per awaited remote exchange,   *)
(* per processed outcome and per handleSyncError call of a failed batch.   *)
(*                                                                         *)
(* Abstractions.  A task's payload (title, description, completed) is its  *)
(* title; last_synced_at and the queue entry's data snapshot are written   *)
(* by the code but never read by the sync engine and are left out.         *)
(* uuidv4() is an identifier different from every identifier in use;       *)
(* entry identifiers are 1, 2, ... and task identifiers 101, 102, ... so   *)
(* that the two kinds never coincide.  new Date() reads a clock that       *)
(* advances by one at every local mutation.  The remote authority is the   *)
(* environment: it answers a batch with any sequence of outcomes, or the   *)
(* exchange fails.                                                         *)
(***************************************************************************)
EXTENDS Integers, Sequences, FiniteSets, TLC

\* Bounds of the model.
MaxTime == 2
MaxQueue == 2
MaxOutcomes == 2
\* SYNC_BATCH_SIZE is read from the environment (Number(env) || 10).
SYNC_BATCH_SIZE == 2
\* The number of tasks created in the runs of SpecBatches.
ScenarioTasks == 3

MAX_RETRY_COUNT == 3

TaskIds == 101..(100 + ScenarioTasks)
Titles == {"a"}
RemoteTitle == "s"
NoId == "null"
ServerIds == {"R1"}
NoError == "null"
UnknownError == "Unknown error"
ItemError == "Task not found"
BatchError == "Batch sync failed"
NaN == -1

VARIABLES
    db,      \* Database: [tasks: task id -> row, sync_queue: rows in rowid order]
    clock,   \* the time new Date() returns
    cyc,     \* the running invocation of SyncService.sync and its result
    last,    \* the step taken last and what it was applied to
    rc,      \* arguments and result of a resolveConflict call
    other,   \* a second invocation of SyncService.sync, suspended at an await
    assigned \* the tasks a success outcome carrying a server_id was applied to

vars == <<db, clock, cyc, last, rc, other, assigned>>

----------------------------------------------------------------------------
\* Rows

NoTask ==
    [exists |-> FALSE, title |-> "", updated_at |-> 0, is_deleted |-> FALSE,
     sync_status |-> "none", server_id |-> NoId]

QueueItem(id, task_id, operation, created_at) ==
    [id |-> id, task_id |-> task_id, operation |-> operation,
     created_at |-> created_at, retry_count |-> 0, error_message |-> NoError]

NoItem == QueueItem(0, 0, "none", 0)

RECURSIVE Flatten(_)
Flatten(ss) == IF ss = <<>> THEN <<>> ELSE Head(ss) \o Flatten(Tail(ss))

QueueIds(q) == {q[k].id : k \in DOMAIN q}

\* uuidv4(): an identifier not in use (in the queue or in a drained snapshot)
UsedIds ==
    QueueIds(db.sync_queue) \cup QueueIds(Flatten(cyc.batches))
        \cup QueueIds(Flatten(other.batches))

uuidv4(used) == CHOOSE i \in 1..(Cardinality(used) + 1) :
                    i \notin used /\ \A j \in 1..(i - 1) : j \in used

NewTaskId == CHOOSE t \in TaskIds :
                 ~db.tasks[t].exists /\ \A u \in TaskIds : u < t => db.tasks[u].exists

----------------------------------------------------------------------------
\* TaskService

\* SELECT * FROM tasks WHERE id = ? AND is_deleted = 0
getTask(d, id) ==
    IF id \in TaskIds /\ d.tasks[id].exists /\ ~d.tasks[id].is_deleted
    THEN d.tasks[id] ELSE NoTask

createTask(d, id, qid, title, now) ==
    [tasks |-> [d.tasks EXCEPT ![id] =
                   [exists |-> TRUE, title |-> title, updated_at |-> now,
                    is_deleted |-> FALSE, sync_status |-> "pending",
                    server_id |-> NoId]],
     sync_queue |-> Append(d.sync_queue, QueueItem(qid, id, "create", now))]

updateTask(d, id, qid, title, now) ==
    IF ~getTask(d, id).exists THEN d
    ELSE [tasks |-> [d.tasks EXCEPT ![id].title = title,
                                    ![id].updated_at = now,
                                    ![id].sync_status = "pending"],
          sync_queue |-> Append(d.sync_queue, QueueItem(qid, id, "update", now))]

deleteTask(d, id, qid, now) ==
    IF ~getTask(d, id).exists THEN d
    ELSE [tasks |-> [d.tasks EXCEPT ![id].is_deleted = TRUE,
                                    ![id].updated_at = now,
                                    ![id].sync_status = "pending"],
          sync_queue |-> Append(d.sync_queue, QueueItem(qid, id, "delete", now))]

\* SyncService.addToSyncQueue
addToSyncQueue(d, qid, taskId, operation, now) ==
    [d EXCEPT !.sync_queue = Append(@, QueueItem(qid, taskId, operation, now))]

----------------------------------------------------------------------------
\* SyncService

\* SELECT * FROM sync_queue WHERE retry_count < ? ORDER BY created_at ASC
\* (rows of equal created_at stay in rowid order)
RECURSIVE InsertByCreatedAt(_, _)
InsertByCreatedAt(sorted, x) ==
    IF sorted = <<>> THEN <<x>>
    ELSE IF Head(sorted).created_at <= x.created_at
         THEN <<Head(sorted)>> \o InsertByCreatedAt(Tail(sorted), x)
         ELSE <<x>> \o sorted

RECURSIVE OrderByCreatedAt(_)
OrderByCreatedAt(s) ==
    IF s = <<>> THEN <<>>
    ELSE InsertByCreatedAt(OrderByCreatedAt(SubSeq(s, 1, Len(s) - 1)), s[Len(s)])

getSyncQueueItems(d) ==
    OrderByCreatedAt(SelectSeq(d.sync_queue, LAMBDA x : x.retry_count < MAX_RETRY_COUNT))

\* createBatches that puts all the items in one batch
createBatchesUnsplit(items, batchSize) == IF items = <<>> THEN <<>> ELSE <<items>>

RECURSIVE createBatches(_, _)
createBatches(items, batchSize) ==
    IF items = <<>> THEN <<>>
    ELSE IF Len(items) <= batchSize THEN <<items>>
         ELSE <<SubSeq(items, 1, batchSize)>>
              \o createBatches(SubSeq(items, batchSize + 1, Len(items)), batchSize)

\* batch.find(item => item.task_id === processedItem.client_id)
RECURSIVE FindQueueItem(_, _)
FindQueueItem(batch, client_id) ==
    IF batch = <<>> THEN NoItem
    ELSE IF Head(batch).task_id = client_id THEN Head(batch)
         ELSE FindQueueItem(Tail(batch), client_id)

\* DELETE FROM sync_queue WHERE id = ?
DeleteQueueItem(d, id) ==
    [d EXCEPT !.sync_queue = SelectSeq(@, LAMBDA x : x.id # id)]

\* new Date(x).getTime(): NaN for a timestamp that does not parse
GetTime(ts) == IF ts \in Nat THEN ts ELSE NaN

\* a > b on numbers: false when either side is NaN
GreaterThan(a, b) == a # NaN /\ b # NaN /\ a > b

Version(id, row) == [id |-> id, title |-> row.title, updated_at |-> row.updated_at]

NoData == [id |-> -1, title |-> "", updated_at |-> 0]

\* resolveConflict with localTimestamp >= serverTimestamp for >
resolveConflictTieLocal(localTask, serverTask) ==
    IF GetTime(localTask.updated_at) # NaN /\ GetTime(serverTask.updated_at) # NaN
       /\ GetTime(localTask.updated_at) >= GetTime(serverTask.updated_at)
    THEN localTask ELSE serverTask

resolveConflict(localTask, serverTask) ==
    IF GreaterThan(GetTime(localTask.updated_at), GetTime(serverTask.updated_at))
    THEN localTask ELSE serverTask

\* updateSyncStatus without its DELETE FROM sync_queue
updateSyncStatusKeepsItem(d, queueItemId, taskId, status, server_id) ==
    LET row == d.tasks[taskId]
    IN IF ~row.exists THEN d
       ELSE [d EXCEPT !.tasks[taskId] =
                [row EXCEPT !.sync_status = status,
                            !.server_id = IF server_id # NoId THEN server_id ELSE @]]

\* updateSyncStatus that marks the task error when the item is not in the queue
updateSyncStatusAbsentFails(d, queueItemId, taskId, status, server_id) ==
    IF queueItemId \notin QueueIds(d.sync_queue)
    THEN [d EXCEPT !.tasks[taskId].sync_status = "error"]
    ELSE DeleteQueueItem(
             updateSyncStatusKeepsItem(d, queueItemId, taskId, status, server_id),
             queueItemId)

updateSyncStatus(d, queueItemId, taskId, status, server_id) ==
    LET row == d.tasks[taskId]
        upd == IF ~row.exists THEN d
               ELSE [d EXCEPT !.tasks[taskId] =
                        [row EXCEPT !.sync_status = status,
                                    !.server_id = IF server_id # NoId THEN server_id ELSE @]]
    IN IF status = "synced" THEN DeleteQueueItem(upd, queueItemId) ELSE upd

\* handleSyncError with newRetryCount > MAX_RETRY_COUNT for >=
handleSyncErrorOneMore(d, item, message) ==
    LET newRetryCount == item.retry_count + 1
    IN IF newRetryCount > MAX_RETRY_COUNT
       THEN DeleteQueueItem(
                IF d.tasks[item.task_id].exists
                THEN [d EXCEPT !.tasks[item.task_id].sync_status = "error"]
                ELSE d,
                item.id)
       ELSE [d EXCEPT !.sync_queue =
                [k \in DOMAIN @ |->
                    IF @[k].id = item.id
                    THEN [@[k] EXCEPT !.retry_count = newRetryCount,
                                      !.error_message = message]
                    ELSE @[k]]]

\* handleSyncError without the DELETE FROM sync_queue of the exhausted entry
handleSyncErrorKeepsItem(d, item, message) ==
    LET newRetryCount == item.retry_count + 1
    IN IF newRetryCount >= MAX_RETRY_COUNT
       THEN IF d.tasks[item.task_id].exists
            THEN [d EXCEPT !.tasks[item.task_id].sync_status = "error"]
            ELSE d
       ELSE [d EXCEPT !.sync_queue =
                [k \in DOMAIN @ |->
                    IF @[k].id = item.id
                    THEN [@[k] EXCEPT !.retry_count = newRetryCount,
                                      !.error_message = message]
                    ELSE @[k]]]

\* handleSyncError whose UPDATE sync_queue has no WHERE id = ?
handleSyncErrorAllItems(d, item, message) ==
    LET newRetryCount == item.retry_count + 1
    IN IF newRetryCount >= MAX_RETRY_COUNT
       THEN DeleteQueueItem(
                IF d.tasks[item.task_id].exists
                THEN [d EXCEPT !.tasks[item.task_id].sync_status = "error"]
                ELSE d,
                item.id)
       ELSE [d EXCEPT !.sync_queue =
                [k \in DOMAIN @ |->
                    [@[k] EXCEPT !.retry_count = newRetryCount,
                                 !.error_message = message]]]

\* handleSyncError that removes the exhausted item without UPDATE tasks
handleSyncErrorKeepsStatus(d, item, message) ==
    LET newRetryCount == item.retry_count + 1
    IN IF newRetryCount >= MAX_RETRY_COUNT
       THEN DeleteQueueItem(d, item.id)
       ELSE [d EXCEPT !.sync_queue =
                [k \in DOMAIN @ |->
                    IF @[k].id = item.id
                    THEN [@[k] EXCEPT !.retry_count = newRetryCount,
                                      !.error_message = message]
                    ELSE @[k]]]

\* handleSyncError that keeps the item at any retry_count
handleSyncErrorNeverExhausts(d, item, message) ==
    [d EXCEPT !.sync_queue =
        [k \in DOMAIN @ |->
            IF @[k].id = item.id
            THEN [@[k] EXCEPT !.retry_count = item.retry_count + 1,
                              !.error_message = message]
            ELSE @[k]]]

handleSyncError(d, item, message) ==
    LET newRetryCount == item.retry_count + 1
    IN IF newRetryCount >= MAX_RETRY_COUNT
       THEN DeleteQueueItem(
                IF d.tasks[item.task_id].exists
                THEN [d EXCEPT !.tasks[item.task_id].sync_status = "error"]
                ELSE d,
                item.id)
       ELSE [d EXCEPT !.sync_queue =
                [k \in DOMAIN @ |->
                    IF @[k].id = item.id
                    THEN [@[k] EXCEPT !.retry_count = newRetryCount,
                                      !.error_message = message]
                    ELSE @[k]]]

\* The conflict branch of sync: lines 72-97
applyConflict(d, queueItem, p) ==
    LET localTask == getTask(d, queueItem.task_id)
        resolvedTask == resolveConflict(Version(queueItem.task_id, localTask),
                                        p.resolved_data)
        rid == resolvedTask.id
        upd == IF rid \in TaskIds /\ d.tasks[rid].exists
               THEN [d EXCEPT !.tasks[rid] =
                        [@ EXCEPT !.title = resolvedTask.title,
                                  !.updated_at = resolvedTask.updated_at,
                                  !.sync_status = "synced",
                                  !.server_id = p.server_id]]
               ELSE d
    IN IF localTask.exists THEN DeleteQueueItem(upd, queueItem.id) ELSE d

----------------------------------------------------------------------------
\* State after construction

NoOutcome ==
    [client_id |-> 0, status |-> "none", server_id |-> NoId,
     resolved_data |-> NoData, error |-> NoError]

\* The record of a step: its kind, the queue item it acted on (NoItem's
\* fields when none), the outcome it processed and the message it passed
\* to handleSyncError (NoError when it did not call it).
Step(op, item, p, message) ==
    [op |-> op, qid |-> item.id, task_id |-> item.task_id,
     retry_count |-> item.retry_count, client_id |-> p.client_id,
     status |-> p.status, server_id |-> p.server_id, message |-> message]

\* a result that starts with success = false
NewResultFailed == [success |-> FALSE, synced_items |-> 0, failed_items |-> 0, errors |-> <<>>]

NewResult == [success |-> TRUE, synced_items |-> 0, failed_items |-> 0, errors |-> <<>>]

IdleCycle ==
    [pc |-> "idle", online |-> FALSE, batches |-> <<>>, bi |-> 0, i |-> 0, n |-> 0,
     result |-> NewResult]

NoCall == [local |-> NoData, server |-> NoData, winner |-> NoData, called |-> FALSE]

Init ==
    /\ db = [tasks |-> [t \in TaskIds |-> NoTask], sync_queue |-> <<>>]
    /\ clock = 0
    /\ cyc = IdleCycle
    /\ last = Step("init", NoItem, NoOutcome, NoError)
    /\ rc = NoCall
    /\ other = IdleCycle
    /\ assigned = {}

----------------------------------------------------------------------------
\* Local mutations: TaskService called directly, and the task routes

CanMutate(entries) ==
    /\ clock < MaxTime
    /\ Len(db.sync_queue) + entries <= MaxQueue

Mutation(op, d) ==
    /\ db' = d
    /\ clock' = clock + 1
    /\ last' = Step(op, d.sync_queue[Len(d.sync_queue)], NoOutcome, NoError)
    /\ UNCHANGED <<cyc, rc, other, assigned>>

CreateTask(title) ==
    /\ CanMutate(1)
    /\ \E t \in TaskIds : ~db.tasks[t].exists
    /\ Mutation("createTask", createTask(db, NewTaskId, uuidv4(UsedIds), title, clock + 1))

UpdateTask(id, title) ==
    /\ CanMutate(1)
    /\ getTask(db, id).exists
    /\ Mutation("updateTask", updateTask(db, id, uuidv4(UsedIds), title, clock + 1))

DeleteTask(id) ==
    /\ CanMutate(1)
    /\ getTask(db, id).exists
    /\ Mutation("deleteTask", deleteTask(db, id, uuidv4(UsedIds), clock + 1))

\* router.post('/'): createTask, then addToSyncQueue(task.id, 'create', task)
PostTask(title) ==
    /\ CanMutate(2)
    /\ \E t \in TaskIds : ~db.tasks[t].exists
    /\ LET q1 == uuidv4(UsedIds)
           q2 == uuidv4(UsedIds \cup {q1})
           d1 == createTask(db, NewTaskId, q1, title, clock + 1)
       IN Mutation("POST", addToSyncQueue(d1, q2, NewTaskId, "create", clock + 1))

\* router.put('/:id'): updateTask, 404 when it returns null, then addToSyncQueue
PutTask(id, title) ==
    /\ CanMutate(2)
    /\ getTask(db, id).exists
    /\ LET q1 == uuidv4(UsedIds)
           q2 == uuidv4(UsedIds \cup {q1})
           d1 == updateTask(db, id, q1, title, clock + 1)
       IN Mutation("PUT", addToSyncQueue(d1, q2, id, "update", clock + 1))

\* router.delete('/:id'): getTask, 404 when null, deleteTask, then addToSyncQueue
DeleteTaskRoute(id) ==
    /\ CanMutate(2)
    /\ getTask(db, id).exists
    /\ LET q1 == uuidv4(UsedIds)
           q2 == uuidv4(UsedIds \cup {q1})
           d1 == deleteTask(db, id, q1, clock + 1)
       IN Mutation("DELETE", addToSyncQueue(d1, q2, id, "delete", clock + 1))

----------------------------------------------------------------------------
\* SyncService.sync, step by step

\* sync without its check of isOnline
SyncAbortsNever(isOnline) == FALSE

\* if (!isOnline) throw new Error('Server is not reachable')
SyncAborts(isOnline) == ~isOnline

\* sync without its final assignment to result.success
FinalSuccessKept(result) == result.success

\* result.success = result.failed_items === 0
FinalSuccess(result) == result.failed_items = 0

\* return result, at the end of the loop over the batches
Finish(cy) ==
    [cy EXCEPT !.pc = "done", !.batches = <<>>, !.bi = 0, !.i = 0, !.n = 0,
               !.result.success = FinalSuccess(cy.result)]

\* for (const batch of batches): the next batch, or the end of the loop
AfterBatch(cy) ==
    IF cy.bi < Len(cy.batches)
    THEN [cy EXCEPT !.pc = "send", !.bi = @ + 1, !.i = 0, !.n = 0]
    ELSE Finish(cy)

\* a catch (batchError) that returns the result instead of going on
AfterCatchReturns(cy) == Finish(cy)

\* the end of catch (batchError): the loop over the batches goes on
AfterCatch(cy) == AfterBatch(cy)

Failed(result, item, message) ==
    [result EXCEPT !.failed_items = @ + 1,
                   !.errors = Append(@, [task_id |-> item.task_id,
                                         operation |-> item.operation,
                                         error |-> message])]

\* the batch of the current iteration of: for (const batch of batches)
CurrentBatch == IF cyc.bi \in DOMAIN cyc.batches THEN cyc.batches[cyc.bi] ELSE <<>>

\* checkConnectivity, getSyncQueueItems, createBatches
SyncStart(isOnline) ==
    /\ cyc.pc \in {"idle", "done"}
    /\ LET items == getSyncQueueItems(db)
           start == [IdleCycle EXCEPT !.online = isOnline]
       IN IF SyncAborts(isOnline)
          THEN /\ cyc' = [start EXCEPT !.pc = "done", !.result.success = FALSE]
               /\ last' = Step("offline", NoItem, NoOutcome, NoError)
          ELSE IF items = <<>>
          THEN /\ cyc' = [start EXCEPT !.pc = "done"]
               /\ last' = Step("empty", NoItem, NoOutcome, NoError)
          ELSE /\ cyc' = [start EXCEPT !.pc = "send", !.bi = 1,
                                       !.batches = createBatches(items, SYNC_BATCH_SIZE)]
               /\ last' = Step("drain", NoItem, NoOutcome, NoError)
    /\ UNCHANGED <<db, clock, rc, other, assigned>>

\* processBatch returns the response of the remote
BatchResponse ==
    /\ cyc.pc = "send"
    /\ cyc' = [cyc EXCEPT !.pc = "apply"]
    /\ last' = Step("response", NoItem, NoOutcome, NoError)
    /\ UNCHANGED <<db, clock, rc, other, assigned>>

\* processBatch throws (transport failure, or a response without processed_items)
BatchThrow ==
    /\ cyc.pc = "send"
    /\ cyc' = [cyc EXCEPT !.pc = "fail", !.i = 1]
    /\ last' = Step("throw", NoItem, NoOutcome, NoError)
    /\ UNCHANGED <<db, clock, rc, other, assigned>>

\* one iteration of: for (const item of batch) in catch (batchError)
BatchErrorStep ==
    /\ cyc.pc = "fail"
    /\ LET batch == CurrentBatch
           item == batch[cyc.i]
           cy == [cyc EXCEPT !.result = Failed(@, item, BatchError)]
       IN /\ db' = handleSyncError(db, item, BatchError)
          /\ cyc' = IF cyc.i < Len(batch) THEN [cy EXCEPT !.i = @ + 1] ELSE AfterCatch(cy)
          /\ last' = Step("batchError", item, NoOutcome, BatchError)
    /\ UNCHANGED <<clock, rc, other, assigned>>

\* The remote's updated_at: earlier than every local one, or as late as the latest
RemoteTimes == {0, MaxTime}

\* The versions of task id a remote may hold
RemoteVersions(id) == [id : {id}, title : {RemoteTitle}, updated_at : RemoteTimes]

\* The outcomes a remote may send for one item of a batch, under the item's
\* id (as router.post('/batch') answers) or under its task_id
OutcomesFor(item) ==
    LET keys == {item.id, item.task_id}
    IN [client_id : keys, status : {"success"}, server_id : ServerIds \cup {NoId},
        resolved_data : {NoData}, error : {NoError}]
       \cup [client_id : keys, status : {"conflict"}, server_id : ServerIds \cup {NoId},
             resolved_data : RemoteVersions(item.task_id) \cup {NoData},
             error : {NoError}]
       \cup [client_id : keys, status : {"error"}, server_id : {NoId},
             resolved_data : {NoData}, error : {ItemError}]

\* The outcomes a remote may send in answer to a batch
Outcomes(batch) == UNION {OutcomesFor(batch[k]) : k \in DOMAIN batch}

\* one iteration of: for (const processedItem of batchResponse.processed_items)
ApplyOutcome(p) ==
    /\ cyc.pc = "apply"
    /\ cyc.n < MaxOutcomes
    /\ LET queueItem == FindQueueItem(CurrentBatch, p.client_id)
           message == IF p.error # NoError THEN p.error ELSE UnknownError
           cy == [cyc EXCEPT !.n = @ + 1]
       IN /\ IF queueItem = NoItem
             THEN /\ db' = db
                  /\ cyc' = cy
                  /\ last' = Step("ignored", NoItem, p, NoError)
             ELSE IF p.status = "success"
             THEN /\ db' = updateSyncStatus(db, queueItem.id, queueItem.task_id,
                                            "synced", p.server_id)
                  /\ cyc' = [cy EXCEPT !.result.synced_items = @ + 1]
                  /\ last' = Step("success", queueItem, p, NoError)
             ELSE IF p.status = "conflict" /\ p.resolved_data # NoData
             THEN IF getTask(db, queueItem.task_id).exists
                  THEN /\ db' = applyConflict(db, queueItem, p)
                       /\ cyc' = [cy EXCEPT !.result.synced_items = @ + 1]
                       /\ last' = Step("conflict", queueItem, p, NoError)
                  ELSE /\ db' = db
                       /\ cyc' = cy
                       /\ last' = Step("skipped", queueItem, p, NoError)
             ELSE /\ db' = handleSyncError(db, queueItem, message)
                  /\ cyc' = [cy EXCEPT !.result = Failed(@, queueItem, message)]
                  /\ last' = Step("error", queueItem, p, message)
          /\ assigned' = IF queueItem # NoItem /\ p.status = "success"
                             /\ p.server_id # NoId
                          THEN assigned \cup {queueItem.task_id} ELSE assigned
    /\ UNCHANGED <<clock, rc, other>>

\* the response has no further outcome
EndResponse ==
    /\ cyc.pc = "apply"
    /\ cyc' = AfterBatch(cyc)
    /\ last' = Step("endResponse", NoItem, NoOutcome, NoError)
    /\ UNCHANGED <<db, clock, rc, other, assigned>>

----------------------------------------------------------------------------
Next ==
    \/ \E title \in Titles : CreateTask(title)
    \/ \E id \in TaskIds, title \in Titles : UpdateTask(id, title)
    \/ \E id \in TaskIds : DeleteTask(id)
    \/ \E title \in Titles : PostTask(title)
    \/ \E id \in TaskIds, title \in Titles : PutTask(id, title)
    \/ \E id \in TaskIds : DeleteTaskRoute(id)
    \/ \E isOnline \in BOOLEAN : SyncStart(isOnline)
    \/ BatchResponse
    \/ BatchThrow
    \/ BatchErrorStep
    \/ \E p \in Outcomes(CurrentBatch) : ApplyOutcome(p)
    \/ EndResponse

Spec == Init /\ [][Next]_vars

----------------------------------------------------------------------------
\* resolveConflict as a function: any local version against any remote one

LocalVersions == [id : TaskIds, title : Titles, updated_at : 0..MaxTime]

ServerVersions ==
    [id : TaskIds, title : {RemoteTitle},
     updated_at : (0..MaxTime) \cup {NaN}]

InitResolve ==
    /\ db = [tasks |-> [t \in TaskIds |-> NoTask], sync_queue |-> <<>>]
    /\ clock = 0
    /\ cyc = IdleCycle
    /\ last = Step("init", NoItem, NoOutcome, NoError)
    /\ rc \in [local : LocalVersions, server : ServerVersions,
                winner : {NoData}, called : {FALSE}]
    /\ other = IdleCycle
    /\ assigned = {}

Resolve ==
    /\ ~rc.called
    /\ rc' = [rc EXCEPT !.winner = resolveConflict(rc.local, rc.server),
                        !.called = TRUE]
    /\ UNCHANGED <<db, clock, cyc, last, other, assigned>>

NextResolve == Resolve

SpecResolve == InitResolve /\ [][NextResolve]_vars

----------------------------------------------------------------------------
\* Runs over several batches: ScenarioTasks tasks are created through
\* TaskService.createTask, at any time, and sync cycles run on them against
\* a remote that holds no version of its own: each exchange fails or is
\* answered with success and error outcomes.

CreateScenarioTask(title) ==
    /\ Cardinality({t \in TaskIds : db.tasks[t].exists}) < ScenarioTasks
    /\ \E t \in TaskIds : ~db.tasks[t].exists
    /\ Mutation("createTask", createTask(db, NewTaskId, uuidv4(UsedIds), title, clock + 1))

PlainOutcomes(batch) == {p \in Outcomes(batch) : p.status # "conflict"}

NextBatches ==
    \/ \E title \in Titles : CreateScenarioTask(title)
    \/ \E isOnline \in BOOLEAN : SyncStart(isOnline)
    \/ BatchResponse
    \/ BatchThrow
    \/ BatchErrorStep
    \/ \E p \in PlainOutcomes(CurrentBatch) : ApplyOutcome(p)
    \/ EndResponse

SpecBatches == Init /\ [][NextBatches]_vars

----------------------------------------------------------------------------
\* Two invocations of sync: router.post('/sync') calls syncService.sync() for
\* every request and sync holds no lock, so a second request starts a second
\* invocation while the first is suspended at an await.  cyc is the
\* invocation whose continuation runs next, other the suspended one; the
\* event loop may resume either.

InFlight(cy) == cy.pc \in {"send", "apply", "fail"}

Switch ==
    /\ InFlight(cyc) \/ InFlight(other)
    /\ cyc' = other
    /\ other' = cyc
    /\ last' = Step("switch", NoItem, NoOutcome, NoError)
    /\ UNCHANGED <<db, clock, rc, assigned>>

\* In these runs the remote accepts what it answers: success outcomes under
\* the item's task_id, carrying a server_id
AcceptedOutcomes(batch) ==
    {p \in Outcomes(batch) :
        p.status = "success" /\ p.server_id # NoId /\ p.client_id \in TaskIds}

NextOverlap ==
    \/ \E title \in Titles : CreateTask(title)
    \/ \E isOnline \in BOOLEAN : SyncStart(isOnline)
    \/ BatchResponse
    \/ BatchThrow
    \/ BatchErrorStep
    \/ \E p \in AcceptedOutcomes(CurrentBatch) : ApplyOutcome(p)
    \/ EndResponse
    \/ Switch

SpecOverlap == Init /\ [][NextOverlap]_vars

----------------------------------------------------------------------------
\* Runs in which the log should drain: the remote is reachable at every
\* sync, every exchange is answered, with one outcome for each item of the
\* batch in turn under the key sync looks items up by, and each step of a
\* sync and the next sync are eventually taken.

AnswerEntry(p) ==
    /\ cyc.pc = "apply"
    /\ cyc.n < Len(CurrentBatch)
    /\ p \in OutcomesFor(CurrentBatch[cyc.n + 1])
    /\ p.client_id = CurrentBatch[cyc.n + 1].task_id
    /\ ApplyOutcome(p)

EndAnswered ==
    /\ cyc.n = Len(CurrentBatch)
    /\ EndResponse

SyncCycle ==
    \/ SyncStart(TRUE)
    \/ BatchResponse
    \/ \E p \in Outcomes(CurrentBatch) : AnswerEntry(p)
    \/ EndAnswered

NextLive ==
    \/ \E title \in Titles : CreateTask(title)
    \/ \E id \in TaskIds, title \in Titles : UpdateTask(id, title)
    \/ \E id \in TaskIds : DeleteTask(id)
    \/ SyncCycle

SpecLive == Init /\ [][NextLive]_vars /\ WF_vars(SyncCycle)

----------------------------------------------------------------------------
\* router.get('/status')

\* the literal of: SELECT COUNT(*) FROM sync_queue WHERE retry_count < 3
StatusRetryLimit == 3

pending_sync_count(d) ==
    Len(SelectSeq(d.sync_queue, LAMBDA x : x.retry_count < StatusRetryLimit))

sync_queue_size(d) == Len(d.sync_queue)

----------------------------------------------------------------------------
\* Properties

Row(d, id) == d.tasks[id]

ItemsOf(d, id) == SelectSeq(d.sync_queue, LAMBDA x : x.id = id)

InQueue(d, id) == id \in QueueIds(d.sync_queue)

\* the steps of ApplyOutcome in which the outcome found a queue item
MatchedOps == {"success", "conflict", "skipped", "error"}

RouteOps == {"POST", "PUT", "DELETE"}

\* C1: every outcome applied in a sync cycle is applied to the queue item
\* whose id equals the outcome's client_id, never to one found by task_id.
C1_OutcomeAppliedToItsEntry ==
    last.op \in MatchedOps => last.qid = last.client_id

\* C2: a mutation made through a task route adds exactly one entry to the
\* sync_queue, of the mutation's kind and with retry count 0 (the entries
\* stamped with the mutation's time are the ones it added).
C2_RouteAddsOneEntry ==
    last.op \in RouteOps =>
        LET added == SelectSeq(db.sync_queue, LAMBDA x : x.created_at = clock)
            kind == CASE last.op = "POST" -> "create"
                      [] last.op = "PUT" -> "update"
                      [] last.op = "DELETE" -> "delete"
        IN /\ Len(added) = 1
           /\ added[1].operation = kind
           /\ added[1].retry_count = 0
           /\ last.op = "POST" /\ clock = 1 => Len(db.sync_queue) = 1

\* C3: a success outcome applied to a queue item leaves the item's task with
\* sync_status synced and with the outcome's server_id when it carries one,
\* and the item out of the queue; when that item was the whole queue, the
\* queue is empty afterwards.
C3_SuccessApplied ==
    [][last'.op = "success" =>
          /\ Row(db', last'.task_id).sync_status = "synced"
          /\ last'.server_id # NoId =>
                 Row(db', last'.task_id).server_id = last'.server_id
          /\ ~InQueue(db', last'.qid)
          /\ QueueIds(db.sync_queue) = {last'.qid} => db'.sync_queue = <<>>]_vars

\* create one task, run a cycle answered with success and R1: the task is
\* synced with server_id R1 and the queue is empty
C3_Witness ==
    /\ last.op = "success"
    /\ last.server_id = "R1"
    /\ clock = 1
    /\ Row(db, 101).sync_status = "synced"
    /\ Row(db, 101).server_id = "R1"
    /\ db.sync_queue = <<>>

\* C4: a conflict outcome that carries the remote's version and is applied
\* to a queue item, whatever the state of the item's task (soft-deleted or
\* not), leaves the task synced and the item out of the queue, and does not
\* pass the item to handleSyncError.
C4_ConflictResolved ==
    last.op \in {"conflict", "skipped"} =>
        /\ Row(db, last.task_id).sync_status = "synced"
        /\ ~InQueue(db, last.qid)
        /\ last.message = NoError

\* C5: handleSyncError on an item of the queue whose retry_count is r: when
\* r + 1 reaches MAX_RETRY_COUNT the task gets sync_status error and the item
\* leaves the queue; otherwise the item stays with retry_count r + 1 and the
\* error message, and the task's sync_status does not change.
C5_HandleSyncError ==
    [][last'.message # NoError /\ InQueue(db, last'.qid) =>
          IF last'.retry_count + 1 >= MAX_RETRY_COUNT
          THEN /\ Row(db', last'.task_id).sync_status = "error"
               /\ ~InQueue(db', last'.qid)
          ELSE /\ Len(ItemsOf(db', last'.qid)) = 1
               /\ ItemsOf(db', last'.qid)[1].retry_count = last'.retry_count + 1
               /\ ItemsOf(db', last'.qid)[1].error_message = last'.message
               /\ Row(db', last'.task_id).sync_status
                      = Row(db, last'.task_id).sync_status]_vars

\* an item retried once and, in another run, an item that used up its retries
C5_Witness ==
    /\ last.message # NoError
    /\ last.retry_count = MAX_RETRY_COUNT - 1
    /\ Row(db, last.task_id).sync_status = "error"
    /\ ~InQueue(db, last.qid)

\* C6: resolveConflict returns the local version whole when its updated_at
\* is strictly later than the remote's, and the remote version whole
\* otherwise, equal timestamps included.
C6_LastWriteWins ==
    rc.called =>
        rc.winner = IF /\ rc.local.updated_at \in Nat
                       /\ rc.server.updated_at \in Nat
                       /\ rc.local.updated_at > rc.server.updated_at
                    THEN rc.local ELSE rc.server

\* equal timestamps: the remote version is returned
C6_Witness ==
    /\ rc.called
    /\ rc.local.updated_at = rc.server.updated_at
    /\ rc.local.id = rc.server.id
    /\ rc.winner = rc.server
    /\ rc.winner # rc.local

\* C7: a sync that finds the remote unreachable returns success = false,
\* sends no batch and changes neither the sync_queue nor any task.
C7_OfflineChangesNothing ==
    [][cyc'.pc # "idle" /\ ~cyc'.online /\ last'.op \in {"offline", "empty", "drain"} =>
          /\ last'.op = "offline"
          /\ cyc'.pc = "done"
          /\ cyc'.batches = <<>>
          /\ ~cyc'.result.success
          /\ cyc'.result.synced_items = 0 /\ cyc'.result.failed_items = 0
          /\ db' = db]_vars

\* unreachable remote with items waiting, one of them already retried
C7_Witness ==
    /\ last.op = "offline"
    /\ ~cyc.result.success
    /\ \E k \in DOMAIN db.sync_queue : db.sync_queue[k].retry_count > 0

\* C8: when the exchange of a batch fails, each item of the batch is passed
\* to handleSyncError once and counted as failed once, in turn; the items
\* that are not the one handled, and the tasks that are not its task, do not
\* change; and after the last item the cycle goes on with the next batch.
C8_BatchFailure ==
    [][last'.op \in {"throw", "batchError"} =>
          IF last'.op = "throw"
          THEN /\ db' = db
               /\ cyc'.pc = "fail" /\ cyc'.i = 1
               /\ cyc'.bi = cyc.bi /\ cyc'.batches = cyc.batches
               /\ cyc'.result = cyc.result
          ELSE LET batch == cyc.batches[cyc.bi]
               IN /\ cyc.pc = "fail"
                  /\ last'.qid = batch[cyc.i].id
                  /\ last'.message = BatchError
                  /\ cyc'.result.failed_items = cyc.result.failed_items + 1
                  /\ cyc'.result.synced_items = cyc.result.synced_items
                  /\ Len(cyc'.result.errors) = Len(cyc.result.errors) + 1
                  /\ SelectSeq(db'.sync_queue, LAMBDA x : x.id # last'.qid)
                         = SelectSeq(db.sync_queue, LAMBDA x : x.id # last'.qid)
                  /\ \A t \in TaskIds \ {last'.task_id} : db'.tasks[t] = db.tasks[t]
                  /\ IF cyc.i < Len(batch)
                     THEN /\ cyc'.pc = "fail" /\ cyc'.i = cyc.i + 1
                          /\ cyc'.bi = cyc.bi /\ cyc'.batches = cyc.batches
                     ELSE IF cyc.bi < Len(cyc.batches)
                     THEN /\ cyc'.pc = "send" /\ cyc'.bi = cyc.bi + 1
                          /\ cyc'.batches = cyc.batches
                     ELSE cyc'.pc = "done"]_vars

\* a first batch of SYNC_BATCH_SIZE items has failed, each counted once, and
\* the second batch is about to be sent
C8_Witness ==
    /\ last.op = "batchError"
    /\ cyc.pc = "send"
    /\ cyc.bi = 2
    /\ Len(cyc.batches) = 2
    /\ cyc.result.failed_items = Len(cyc.batches[1])
    /\ Len(cyc.batches[1]) > 1
    /\ \A k \in DOMAIN cyc.batches[2] :
           \E j \in DOMAIN db.sync_queue : db.sync_queue[j] = cyc.batches[2][k]

\* C9: with ScenarioTasks entries for as many tasks, all at retry_count r, a
\* cycle in which every exchange fails leaves all of them in the queue at
\* retry_count r + 1 while r + 1 < MAX_RETRY_COUNT, and at the cycle where
\* r + 1 = MAX_RETRY_COUNT leaves the queue empty and every one of the tasks
\* with sync_status error: entries start at 0, so the first and second failed
\* cycles leave them at 1 and 2 and the third empties the queue.
C9_ThreeFailedCycles ==
    [][last'.op = "batchError" /\ cyc'.pc = "done" =>
          LET items == Flatten(cyc.batches)
              r == items[1].retry_count
              scenario ==
                  /\ Len(items) = ScenarioTasks
                  /\ Cardinality({items[k].task_id : k \in DOMAIN items}) = Len(items)
                  /\ \A k \in DOMAIN items : items[k].retry_count = r
                  /\ QueueIds(db.sync_queue) \subseteq QueueIds(items)
                  /\ cyc'.result.failed_items = Len(items)
                  /\ \A k \in DOMAIN cyc'.result.errors :
                         cyc'.result.errors[k].error = BatchError
          IN scenario =>
                 IF r + 1 < MAX_RETRY_COUNT
                 THEN /\ QueueIds(db'.sync_queue) = QueueIds(items)
                      /\ Len(db'.sync_queue) = Len(items)
                      /\ \A k \in DOMAIN db'.sync_queue :
                             db'.sync_queue[k].retry_count = r + 1
                      /\ \A k \in DOMAIN items :
                             Row(db', items[k].task_id).sync_status = "pending"
                 ELSE /\ db'.sync_queue = <<>>
                      /\ \A k \in DOMAIN items :
                             Row(db', items[k].task_id).sync_status = "error"]_vars

\* the end of the third failed cycle
C9_Witness ==
    /\ last.op = "batchError"
    /\ last.retry_count = MAX_RETRY_COUNT - 1
    /\ cyc.pc = "done"
    /\ cyc.result.failed_items = ScenarioTasks
    /\ \A k \in DOMAIN cyc.result.errors : cyc.result.errors[k].error = BatchError
    /\ db.sync_queue = <<>>
    /\ Cardinality({t \in TaskIds : Row(db, t).sync_status = "error"}) = ScenarioTasks

\* C10 as claimed: the result of every sync has success = true exactly when
\* its failed_items is zero.
C10_SuccessIffNoFailure ==
    cyc.pc = "done" => (cyc.result.success <=> cyc.result.failed_items = 0)

\* C10 as amended: the result of every sync that found the remote reachable
\* has success = true exactly when its failed_items is zero.
C10_SuccessIffNoFailureWhenReachable ==
    cyc.pc = "done" /\ cyc.online =>
        (cyc.result.success <=> cyc.result.failed_items = 0)

\* a cycle that reached the remote and counted a failure
C10_Witness ==
    /\ cyc.pc = "done"
    /\ cyc.online
    /\ cyc.result.failed_items > 0
    /\ cyc.result.synced_items > 0
    /\ ~cyc.result.success

\* the steps of a sync cycle (every step that is not a local mutation)
SyncOps ==
    {"offline", "empty", "drain", "response", "throw", "batchError",
     "ignored", "success", "conflict", "skipped", "error", "endResponse"}

\* C11: a task's server_id changes only from null, and only by a success
\* outcome applied to an item of the task, which assigns the outcome's
\* server_id; once non-null it is never changed or cleared, by a local
\* mutation or by any step of a sync cycle.
C11_ServerIdImmutable ==
    [][\A t \in TaskIds :
          Row(db', t).server_id # Row(db, t).server_id =>
              /\ Row(db, t).server_id = NoId
              /\ last'.op = "success"
              /\ last'.task_id = t
              /\ Row(db', t).server_id = last'.server_id]_vars

\* C12: a task that has sync_status error since before the running cycle
\* drained the queue (no drained item of the task has been touched by the
\* cycle) keeps sync_status error through every step of the cycle.
C12_ErrorStatusStays ==
    [][\A t \in TaskIds :
          /\ Row(db, t).sync_status = "error"
          /\ last'.op \in SyncOps
          /\ \A k \in DOMAIN Flatten(cyc.batches) :
                 Flatten(cyc.batches)[k].task_id = t =>
                     \E j \in DOMAIN db.sync_queue :
                         db.sync_queue[j] = Flatten(cyc.batches)[k]
          => Row(db', t).sync_status = "error"]_vars

\* the items an invocation of sync has drained and not yet finished with
Drained(cy) == IF InFlight(cy) THEN QueueIds(Flatten(cy.batches)) ELSE {}

\* C13: invocations of sync on the same sync_queue never overlap: while one
\* is between its drain and its return no other one is, so no item is held
\* (sent, and passed to handleSyncError) by two invocations at once.
C13_CyclesSerialized ==
    /\ ~(InFlight(cyc) /\ InFlight(other))
    /\ Drained(cyc) \cap Drained(other) = {}

\* C14: a success outcome applied again to the item it has just been applied
\* to, which is out of the queue by then (the same outcome twice in a
\* response), changes neither the sync_queue nor any task (sync_status and
\* server_id included), and records no failure.
C14_DuplicateSuccessNoOp ==
    [][/\ last.op = "success" /\ last'.op = "success"
       /\ last'.qid = last.qid
       /\ last'.client_id = last.client_id
       /\ last'.server_id = last.server_id
       /\ ~InQueue(db, last'.qid)
       => /\ db' = db
          /\ cyc'.result.failed_items = cyc.result.failed_items
          /\ cyc'.result.errors = cyc.result.errors]_vars

\* two success outcomes applied in the response to a batch of one item
C14_Witness ==
    /\ last.op = "success"
    /\ last.server_id = "R1"
    /\ cyc.pc = "apply"
    /\ cyc.n = 2
    /\ Len(Flatten(cyc.batches)) = 1
    /\ cyc.result.synced_items = 2
    /\ cyc.result.failed_items = 0
    /\ ~InQueue(db, last.qid)
    /\ Row(db, last.task_id).sync_status = "synced"
    /\ Row(db, last.task_id).server_id = "R1"

\* C15: a sync that reaches the remote and finds no item with retry_count
\* below MAX_RETRY_COUNT returns success = true with synced_items and
\* failed_items zero, sends no batch and changes no task and no item.
C15_EmptyLogCycle ==
    [][/\ last'.op \in {"empty", "drain"}
       /\ \A k \in DOMAIN db.sync_queue :
              db.sync_queue[k].retry_count >= MAX_RETRY_COUNT
       => /\ last'.op = "empty"
          /\ cyc'.pc = "done"
          /\ cyc'.online
          /\ cyc'.batches = <<>>
          /\ cyc'.result.success
          /\ cyc'.result.synced_items = 0
          /\ cyc'.result.failed_items = 0
          /\ cyc'.result.errors = <<>>
          /\ db' = db]_vars

\* a sync on an empty queue, after an earlier sync has emptied it
C15_Witness ==
    /\ last.op = "empty"
    /\ cyc.pc = "done"
    /\ cyc.result.success
    /\ cyc.result.synced_items = 0
    /\ db.sync_queue = <<>>
    /\ \E t \in TaskIds : Row(db, t).sync_status = "synced"

\* the items of a batch that are in the queue as they were drained
Untouched(d, batch) ==
    {k \in DOMAIN batch : \E j \in DOMAIN d.sync_queue : d.sync_queue[j] = batch[k]}

DrainedItem(cy, id) ==
    LET items == Flatten(cy.batches)
    IN IF \E k \in DOMAIN items : items[k].id = id
       THEN items[CHOOSE k \in DOMAIN items : items[k].id = id] ELSE NoItem

\* C17: an outcome applied to an item of a task while the queue holds an
\* item of a later mutation of the same task (later created_at) leaves the
\* task's sync_status neither synced nor error.
C17_OlderOutcomeKeepsPending ==
    [][last'.op \in MatchedOps =>
          LET e1 == DrainedItem(cyc, last'.qid)
          IN (\E j \in DOMAIN db'.sync_queue :
                  /\ db'.sync_queue[j].task_id = e1.task_id
                  /\ db'.sync_queue[j].created_at > e1.created_at)
             => Row(db', e1.task_id).sync_status \notin {"synced", "error"}]_vars

\* C18: when a success or conflict outcome resolves the last item the queue
\* holds for a task to which a success outcome carrying a server_id has been
\* applied (this one included), the task's server_id is not null afterwards.
C18_ServerIdSetAtLastResolution ==
    [][/\ last'.op \in {"success", "conflict"}
       /\ last'.task_id \in assigned'
       /\ InQueue(db, last'.qid)
       /\ \A j \in DOMAIN db'.sync_queue : db'.sync_queue[j].task_id # last'.task_id
       => Row(db', last'.task_id).server_id # NoId]_vars

\* C19: the retry_count of a queue item is 0 when the item is appended,
\* never decreases, and changes only in a step that records a failure for
\* the item (a call of handleSyncError), which raises it by exactly one
\* unless it removes the item.
C19_RetryCountByFailure ==
    [][/\ \A j \in DOMAIN db'.sync_queue :
              ~InQueue(db, db'.sync_queue[j].id) => db'.sync_queue[j].retry_count = 0
       /\ \A k \in DOMAIN db.sync_queue :
              LET x == db.sync_queue[k]
                  failed == last'.message # NoError /\ last'.qid = x.id
              IN InQueue(db', x.id) =>
                     ItemsOf(db', x.id)[1].retry_count
                         = x.retry_count + (IF failed THEN 1 ELSE 0)]_vars

\* C20: the batches a sync drains, read one after the other, hold each
\* queue item with retry_count below MAX_RETRY_COUNT exactly once and no
\* other item, in ascending created_at; no batch holds more than
\* SYNC_BATCH_SIZE items and every batch but the last holds exactly
\* SYNC_BATCH_SIZE.
C20_DrainOrderAndBatching ==
    [][last'.op = "drain" =>
          LET items == Flatten(cyc'.batches)
              eligible == {j \in DOMAIN db.sync_queue :
                              db.sync_queue[j].retry_count < MAX_RETRY_COUNT}
          IN /\ Len(items) = Cardinality(eligible)
             /\ \A j \in eligible :
                    \E k \in DOMAIN items : items[k] = db.sync_queue[j]
             /\ \A k1, k2 \in DOMAIN items :
                    k1 < k2 => /\ items[k1].created_at <= items[k2].created_at
                               /\ items[k1].id # items[k2].id
             /\ \A b \in DOMAIN cyc'.batches :
                    /\ Len(cyc'.batches[b]) >= 1
                    /\ Len(cyc'.batches[b]) <= SYNC_BATCH_SIZE
                    /\ b < Len(cyc'.batches) =>
                           Len(cyc'.batches[b]) = SYNC_BATCH_SIZE
             /\ cyc'.pc = "send" /\ cyc'.bi = 1]_vars

\* a drain of more items than one batch holds, some of them already retried
C20_Witness ==
    /\ last.op = "drain"
    /\ Len(cyc.batches) = 2
    /\ Len(cyc.batches[1]) = SYNC_BATCH_SIZE
    /\ Len(cyc.batches[2]) < SYNC_BATCH_SIZE
    /\ Flatten(cyc.batches) = db.sync_queue
    /\ \E k \in DOMAIN db.sync_queue : db.sync_queue[k].retry_count > 0

\* C21: an outcome whose client_id is the id of no item of the batch it
\* answers is ignored: it changes no task and no queue item, adds nothing
\* to synced_items, failed_items or errors, and the loop goes on to the
\* next outcome.
C21_UnmatchedOutcomeIgnored ==
    [][/\ last'.op \in MatchedOps \cup {"ignored"}
       /\ last'.client_id \notin QueueIds(CurrentBatch)
       => /\ last'.op = "ignored"
          /\ db' = db
          /\ cyc'.result = cyc.result
          /\ cyc'.pc = "apply"]_vars

\* C22: every task with sync_status pending has an item in the sync_queue
\* that refers to it.
C22_PendingHasEntry ==
    \A t \in TaskIds :
        Row(db, t).sync_status = "pending" =>
            \E j \in DOMAIN db.sync_queue : db.sync_queue[j].task_id = t

\* a conflict outcome for the item of a soft-deleted task has been passed
\* over: the task is pending and its item is in the queue
C22_Witness ==
    /\ last.op = "skipped"
    /\ Row(db, last.task_id).sync_status = "pending"
    /\ Row(db, last.task_id).is_deleted
    /\ InQueue(db, last.qid)

\* C23: when the remote stays reachable and answers every item it is sent,
\* and syncs keep being run, then from some moment on (local mutations are
\* finitely many) the sync_queue is empty and no task is pending.
C23_LogDrains ==
    <>[](/\ db.sync_queue = <<>>
         /\ \A t \in TaskIds : Row(db, t).sync_status # "pending")

\* C24: while a sync runs and when it returns, synced_items + failed_items
\* is at most the number of items the sync drained, and errors holds
\* exactly failed_items records.
C24_CountedAtMostOnce ==
    [][InFlight(cyc) =>
          /\ cyc'.result.synced_items + cyc'.result.failed_items
                 <= Len(Flatten(cyc.batches))
          /\ Len(cyc'.result.errors) = cyc'.result.failed_items]_vars

\* C25: every item of the sync_queue has retry_count in
\* 0..MAX_RETRY_COUNT - 1, and the status query's pending_sync_count equals
\* its sync_queue_size.
C25_RetryCountInRange ==
    /\ \A k \in DOMAIN db.sync_queue :
           db.sync_queue[k].retry_count \in 0..(MAX_RETRY_COUNT - 1)
    /\ pending_sync_count(db) = sync_queue_size(db)

\* after a sync, an item at its last retry beside an item never retried
C25_Witness ==
    /\ cyc.pc = "done"
    /\ sync_queue_size(db) = 2
    /\ pending_sync_count(db) = 2
    /\ \E k \in DOMAIN db.sync_queue :
           db.sync_queue[k].retry_count = MAX_RETRY_COUNT - 1
    /\ \E k \in DOMAIN db.sync_queue : db.sync_queue[k].retry_count = 0

====
